---- MODULE Spec2Model ----
(***************************************************************************)
(* Model of app.py: the music-to-workout pipeline.                         *)
(*   analyze_music_segments  (segmentation of a track into three spans)    *)
(*   get_matched_exercises   (catalog lookup and random selection)         *)
(*   create_workout_video    (download, compose, render, cleanup)          *)
(*                                                                         *)
(* Times are exact rationals.  A tick is 1/TicksPerSec seconds and every   *)
(* time is stored as a whole number of units, one unit being a fifth of a  *)
(* tick, so that duration * (1/5) and duration * (4/5) are exact.  Float   *)
(* rounding is not modelled.                                               *)
(* The labels and the difficulty names are Chinese string literals in the  *)
(* source; the model uses ASCII stand-ins for them.                        *)
(***************************************************************************)
EXTENDS Integers, Sequences, FiniteSets, TLC

----------------------------------------------------------------------------
(* Bounds of the model *)

TicksPerSec == 2
MaxDense == 8
MaxDuration == 30
MaxSpacing == 2
MaxBeats == 6
MaxSegs == 2
MaxExercises == 2
RngRange == 2
MaxItems == 3
MaxConcItems == 1

(* Units per tick (a unit is a fifth of a tick) and per second. *)
UnitsPerTick == 5
OneSecond == UnitsPerTick * TicksPerSec

----------------------------------------------------------------------------
VARIABLES
    duration,        \* librosa.get_duration(...) of the loaded file, in units
    beat_times,      \* librosa.frames_to_time(beat_frames): increasing sequence, in units
    analysis_pc,     \* "call" before analyze_music_segments runs, "done" after
    analysis_results,\* the dict analyze_music_segments returns
    m_segments,      \* get_matched_exercises: the segments argument
    difficulty,      \* the difficulty argument
    database,        \* the database argument (EXERCISE_DATABASE)
    m_pc,            \* "idle", "call", "loop" (inside the for loop), "done"
    m_i,             \* index of the segment the for loop is at (0 before the loop)
    matched_playlist,\* the local list matched_playlist
    match_result,    \* the dict get_matched_exercises returns
    picks,           \* the outcomes of the random source consumed by random.choice
    run,             \* create_workout_video: the locals of each call, by run
    disk,            \* the temp_gif_<i>.gif files of the working directory
    output           \* the file at each run's output_filepath

segVars == <<duration, beat_times, analysis_pc, analysis_results>>

matchVars == <<m_segments, difficulty, database, m_pc, m_i, matched_playlist,
               match_result, picks>>

videoVars == <<run, disk, output>>

vars == <<segVars, matchVars, videoVars>>

----------------------------------------------------------------------------
(* Helpers *)

Abs(x) == IF x < 0 THEN -x ELSE x

RECURSIVE SetToSeq(_)
(* The increasing sequence of the elements of a finite set of integers. *)
SetToSeq(S) ==
    IF S = {} THEN <<>>
    ELSE LET m == CHOOSE x \in S : \A y \in S : x <= y
         IN <<m>> \o SetToSeq(S \ {m})

----------------------------------------------------------------------------
(* analyze_music_segments *)

LABEL_INTRO == "intro (warmup)"
LABEL_MAIN == "main melody"
LABEL_OUTRO == "outro (cooldown)"

(* The fallback threshold one too low. *)
MIN_BEATS_low == 5 - 1

MIN_BEATS == 5

(* np.abs(beat_times - target_time).argmin(): the first index of least distance *)
ArgMinDist(bt, target) ==
    CHOOSE i \in 1..Len(bt) :
        \A j \in 1..Len(bt) :
            /\ Abs(bt[i] - target) <= Abs(bt[j] - target)
            /\ (Abs(bt[j] - target) = Abs(bt[i] - target) => i <= j)

find_nearest_beat(bt, target_time) == bt[ArgMinDist(bt, target_time)]

(* duration * (1/5) and duration * (4/5) *)
target_intro_end(d) == d \div 5
target_main_end(d) == (4 * d) \div 5

(* if intro_end_time < 1.0: intro_end_time = target_intro_end *)
IntroClamp(snapped, d) ==
    IF snapped < OneSecond THEN target_intro_end(d) ELSE snapped

(* The clamp with a strict comparison: a main boundary equal to the intro  *)
(* boundary is kept.                                                       *)
MainClampStrict(snapped, intro, d) ==
    IF snapped < intro THEN target_main_end(d) ELSE snapped

(* if main_end_time <= intro_end_time: main_end_time = target_main_end *)
MainClamp(snapped, intro, d) ==
    IF snapped <= intro THEN target_main_end(d) ELSE snapped

intro_end_time(d, bt) ==
    IF Len(bt) < MIN_BEATS
    THEN target_intro_end(d)
    ELSE IntroClamp(find_nearest_beat(bt, target_intro_end(d)), d)

main_end_time(d, bt) ==
    IF Len(bt) < MIN_BEATS
    THEN target_main_end(d)
    ELSE MainClamp(find_nearest_beat(bt, target_main_end(d)), intro_end_time(d, bt), d)

MakeSegments(d, bt) ==
    << [label |-> LABEL_INTRO, start |-> 0, end |-> intro_end_time(d, bt)],
       [label |-> LABEL_MAIN, start |-> intro_end_time(d, bt), end |-> main_end_time(d, bt)],
       [label |-> LABEL_OUTRO, start |-> main_end_time(d, bt), end |-> d] >>

NoAnalysis == [success |-> FALSE, segments |-> <<>>, error |-> "none"]

----------------------------------------------------------------------------
(* create_workout_video: the objects it works on *)

(* The calls that may be in progress: two requests served at once. *)
RunIds == {1, 2}

(* A moviepy clip object, named by the statement that made it and the      *)
(* playlist index it belongs to (0 for the clips of the whole run):        *)
(* "audio" mp.AudioFileClip, "gif" mp.VideoFileClip, "looped" the clip     *)
(* gif.resize(...).fx(loop), "concat" mp.concatenate_videoclips, "final"   *)
(* set_audio.  The resized clip between gif and looped is bound to no name *)
(* that outlives the statement and is not followed.                        *)
Handle(kind, i) == <<kind, i>>

NoHandle == Handle("none", 0)

(* temp_gif_path = f"temp_gif_{i}.gif", i counting from 0; the model       *)
(* counts playlist items from 1.                                           *)
temp_gif_path(i) == <<"temp_gif", i - 1>>

TempPaths == {temp_gif_path(i) : i \in 1..(MaxItems + 1)}

(* The locals of one call.  Beside the names of the source: i and d are    *)
(* the positions of the two for loops, opened/closes/created/removes        *)
(* record what the call did to clips and files, visited the playlist items *)
(* whose download was attempted, dl_failed those whose download failed,    *)
(* error the step whose exception reached the outer except ("noclips" for  *)
(* the return of line 221).                                                *)
IdleRun ==
    [ pc |-> "idle", playlist |-> <<>>, i |-> 0, d |-> 0,
      audio_clip |-> NoHandle, final_video_no_audio |-> NoHandle, final_video |-> NoHandle,
      video_clips |-> <<>>, temp_gif_clips |-> <<>>, temp_files |-> <<>>,
      opened |-> {}, closes |-> <<>>, created |-> {}, removes |-> <<>>,
      visited |-> {}, dl_failed |-> {}, error |-> "none",
      retval |-> "unset" ]

(* No call of create_workout_video is in progress. *)
VideoIdle ==
    /\ run = [r \in RunIds |-> IdleRun]
    /\ disk = [f \in TempPaths |-> 0]
    /\ output = [r \in RunIds |-> "absent"]

----------------------------------------------------------------------------
(* get_matched_exercises *)

DIFF_BEGINNER == "beginner"
DIFF_INTERMEDIATE == "intermediate"
DIFF_ADVANCED == "advanced"

Tiers == {"low", "medium", "high"}
Categories == {"warmup", "core", "cooldown"}

(* difficulty_map and segment_map: the keys and their values *)
difficulty_map ==
    (DIFF_BEGINNER :> "low") @@ (DIFF_INTERMEDIATE :> "medium") @@ (DIFF_ADVANCED :> "high")

segment_map ==
    (LABEL_INTRO :> "warmup") @@ (LABEL_MAIN :> "core") @@ (LABEL_OUTRO :> "cooldown")

(* The default of difficulty_map.get taken from the wrong tier. *)
difficulty_key_defaultMedium(diff) ==
    IF diff \in DOMAIN difficulty_map THEN difficulty_map[diff] ELSE "medium"

(* difficulty_map.get(difficulty, 'low') *)
difficulty_key(diff) ==
    IF diff \in DOMAIN difficulty_map THEN difficulty_map[diff] ELSE "low"

(* A database is None (none = TRUE) or a dict from category keys to dicts   *)
(* from tier keys to lists of exercises (cats).                             *)
NoneDatabase == [none |-> TRUE, cats |-> <<>>]

(* Only None counts as a database that was not loaded. *)
Falsy_noneOnly(db) == db.none

(* not database: None, or a dict without keys *)
Falsy(db) == db.none \/ DOMAIN db.cats = {}

(* segment_map.get(segment_label) found a key *)
Mapped(seg) == seg.label \in DOMAIN segment_map

(* database[category_key][difficulty_key] raises KeyError *)
LookupFails(seg, key, db) ==
    \/ segment_map[seg.label] \notin DOMAIN db.cats
    \/ key \notin DOMAIN db.cats[segment_map[seg.label]]

(* random.choice(seq) with outcome r of the random source *)
Choice(seq, r) == seq[(r % Len(seq)) + 1]

(* A missing path skips the segment instead of failing the match. *)
IterOutcome_skipMissing(seg, key, db, r) ==
    IF ~Mapped(seg) THEN [kind |-> "skip"]
    ELSE IF LookupFails(seg, key, db) THEN [kind |-> "skip"]
    ELSE IF db.cats[segment_map[seg.label]][key] = <<>> THEN [kind |-> "skip"]
    ELSE [kind |-> "append",
          entry |-> [segment_label |-> seg.label,
                     duration |-> seg.end - seg.start,
                     exercise |-> Choice(db.cats[segment_map[seg.label]][key], r)]]

(* The duration taken as the end time of the segment. *)
IterOutcome_durationEnd(seg, key, db, r) ==
    IF ~Mapped(seg) THEN [kind |-> "skip"]
    ELSE IF LookupFails(seg, key, db) THEN [kind |-> "error"]
    ELSE IF db.cats[segment_map[seg.label]][key] = <<>> THEN [kind |-> "skip"]
    ELSE [kind |-> "append",
          entry |-> [segment_label |-> seg.label,
                     duration |-> seg.end,
                     exercise |-> Choice(db.cats[segment_map[seg.label]][key], r)]]

(* One pass of the for loop body over seg: continue without an entry,      *)
(* return the failure dict, or append an entry.                            *)
IterOutcome(seg, key, db, r) ==
    IF ~Mapped(seg) THEN [kind |-> "skip"]
    ELSE IF LookupFails(seg, key, db) THEN [kind |-> "error"]
    ELSE IF db.cats[segment_map[seg.label]][key] = <<>> THEN [kind |-> "skip"]
    ELSE [kind |-> "append",
          entry |-> [segment_label |-> seg.label,
                     duration |-> seg.end - seg.start,
                     exercise |-> Choice(db.cats[segment_map[seg.label]][key], r)]]

(* The dicts get_matched_exercises returns; keys is the set of their keys. *)
MatchFailure(err) ==
    [keys |-> {"success", "error"}, success |-> FALSE, playlist |-> <<>>, error |-> err]

MatchSuccess(pl) ==
    [keys |-> {"success", "playlist"}, success |-> TRUE, playlist |-> pl, error |-> "none"]

NoMatch == [keys |-> {}, success |-> FALSE, playlist |-> <<>>, error |-> "none"]

(* The outcome of the random source that the next random.choice consumes,  *)
(* rng being the outcomes in the order they are consumed.                  *)
RngAt(rng, k) == IF k <= Len(rng) THEN rng[k] ELSE 0

RECURSIVE MatchLoop(_, _, _, _, _, _)
(* The for loop from segment i on, with the playlist built so far. *)
MatchLoop(segs, i, key, db, rng, pl) ==
    IF i > Len(segs) THEN MatchSuccess(pl)
    ELSE LET o == IterOutcome(segs[i], key, db, RngAt(rng, Len(pl) + 1))
         IN IF o.kind = "error" THEN MatchFailure("structure")
            ELSE IF o.kind = "skip" THEN MatchLoop(segs, i + 1, key, db, rng, pl)
            ELSE MatchLoop(segs, i + 1, key, db, rng, Append(pl, o.entry))

(* get_matched_exercises as a function of its arguments and of the         *)
(* outcomes of the random source.                                          *)
get_matched_exercises(segs, diff, db, rng) ==
    IF Falsy(db) THEN MatchFailure("not loaded")
    ELSE MatchLoop(segs, 1, difficulty_key(diff), db, rng, <<>>)

MatchIdle ==
    /\ m_segments = <<>>
    /\ difficulty = "none"
    /\ database = NoneDatabase
    /\ m_pc = "idle"
    /\ m_i = 0
    /\ matched_playlist = <<>>
    /\ match_result = NoMatch
    /\ picks = <<>>

(* Inputs of get_matched_exercises *)

UNMAPPED_LABEL == "bridge"

Labels == {LABEL_INTRO, LABEL_MAIN, LABEL_OUTRO, UNMAPPED_LABEL}

TimePairs == {<<0, 2>>, <<2, 5>>}

SegPool == {[label |-> l, start |-> tp[1], end |-> tp[2]] : l \in Labels, tp \in TimePairs}

SeqsUpTo(S, n) == UNION {[1..k -> S] : k \in 0..n}

(* Difficulty strings: the three names of difficulty_map and two others.   *)
Difficulties == {DIFF_BEGINNER, DIFF_INTERMEDIATE, DIFF_ADVANCED, "low", "unknown"}

Exercise(c, t, k) == [name |-> <<c, t, k>>, gif_url |-> <<"url", c, t, k>>]

ExerciseList(c, t, n) == [k \in 1..n |-> Exercise(c, t, k)]

(* The tier dicts tried for category c: complete, low missing, low empty,  *)
(* medium missing.                                                         *)
TierDicts(c) ==
    { [t \in Tiers |-> ExerciseList(c, t, IF t = "low" THEN MaxExercises ELSE 1)],
      [t \in Tiers \ {"low"} |-> ExerciseList(c, t, 1)],
      [t \in Tiers |-> ExerciseList(c, t, IF t = "low" THEN 0 ELSE 1)],
      [t \in Tiers \ {"medium"} |-> ExerciseList(c, t, IF t = "low" THEN MaxExercises ELSE 1)] }

CatDicts ==
    UNION { {f \in [C -> UNION {TierDicts(c) : c \in C}] : \A c \in C : f[c] \in TierDicts(c)}
            : C \in SUBSET Categories }

Databases == {NoneDatabase} \cup {[none |-> FALSE, cats |-> f] : f \in CatDicts}

MatchInit ==
    /\ duration = 0
    /\ beat_times = <<>>
    /\ analysis_pc = "idle"
    /\ analysis_results = NoAnalysis
    /\ m_segments \in SeqsUpTo(SegPool, MaxSegs)
    /\ difficulty \in Difficulties
    /\ database \in Databases
    /\ m_pc = "call"
    /\ m_i = 0
    /\ matched_playlist = <<>>
    /\ match_result = NoMatch
    /\ picks = <<>>
    /\ VideoIdle

(* if not database: return the failure dict *)
MatchNoDatabase ==
    /\ m_pc = "call"
    /\ Falsy(database)
    /\ m_pc' = "done"
    /\ match_result' = MatchFailure("not loaded")
    /\ UNCHANGED <<m_segments, difficulty, database, m_i, matched_playlist, picks>>
    /\ UNCHANGED <<segVars, videoVars>>

(* The for loop is entered. *)
MatchEnterLoop ==
    /\ m_pc = "call"
    /\ ~Falsy(database)
    /\ m_pc' = "loop"
    /\ m_i' = 1
    /\ UNCHANGED <<m_segments, difficulty, database, matched_playlist, match_result, picks>>
    /\ UNCHANGED <<segVars, videoVars>>

(* One pass of the loop body that ends in continue or falls through        *)
(* without an entry: unmapped label, or empty list.                        *)
MatchSkip ==
    /\ m_pc = "loop"
    /\ m_i <= Len(m_segments)
    /\ IterOutcome(m_segments[m_i], difficulty_key(difficulty), database, 0).kind = "skip"
    /\ m_i' = m_i + 1
    /\ UNCHANGED <<m_segments, difficulty, database, m_pc, matched_playlist, match_result, picks>>
    /\ UNCHANGED <<segVars, videoVars>>

(* One pass of the loop body that selects an exercise and appends an entry *)
MatchSelect ==
    /\ m_pc = "loop"
    /\ m_i <= Len(m_segments)
    /\ \E r \in 0..(RngRange - 1) :
         LET o == IterOutcome(m_segments[m_i], difficulty_key(difficulty), database, r)
         IN /\ o.kind = "append"
            /\ matched_playlist' = Append(matched_playlist, o.entry)
            /\ picks' = Append(picks, r)
    /\ m_i' = m_i + 1
    /\ UNCHANGED <<m_segments, difficulty, database, m_pc, match_result>>
    /\ UNCHANGED <<segVars, videoVars>>

(* except KeyError: return the failure dict *)
MatchKeyError ==
    /\ m_pc = "loop"
    /\ m_i <= Len(m_segments)
    /\ IterOutcome(m_segments[m_i], difficulty_key(difficulty), database, 0).kind = "error"
    /\ m_pc' = "done"
    /\ match_result' = MatchFailure("structure")
    /\ UNCHANGED <<m_segments, difficulty, database, m_i, matched_playlist, picks>>
    /\ UNCHANGED <<segVars, videoVars>>

(* The loop is over: return the success dict. *)
MatchReturn ==
    /\ m_pc = "loop"
    /\ m_i > Len(m_segments)
    /\ m_pc' = "done"
    /\ match_result' = MatchSuccess(matched_playlist)
    /\ UNCHANGED <<m_segments, difficulty, database, m_i, matched_playlist, picks>>
    /\ UNCHANGED <<segVars, videoVars>>

MatchNext ==
    \/ MatchNoDatabase
    \/ MatchEnterLoop
    \/ MatchSkip
    \/ MatchSelect
    \/ MatchKeyError
    \/ MatchReturn

SpecMatch == MatchInit /\ [][MatchNext]_vars

----------------------------------------------------------------------------
(* create_workout_video *)

(* The playlist entries a call is given. *)
EntryPool ==
    { [segment_label |-> LABEL_INTRO, duration |-> 2,
       exercise |-> Exercise("warmup", "low", 1)],
      [segment_label |-> LABEL_MAIN, duration |-> 3,
       exercise |-> Exercise("core", "low", 1)] }

(* The state when the calls of S have been entered: lines 176-183. *)
VideoInit(S) ==
    /\ run \in {f \in [RunIds -> {IdleRun} \cup
                        {[IdleRun EXCEPT !.pc = "audio", !.playlist = pl] :
                            pl \in SeqsUpTo(EntryPool, MaxItems)}] :
                  \A r \in RunIds : (f[r].pc = "audio") <=> (r \in S)}
    /\ disk = [f \in TempPaths |-> 0]
    /\ output \in {o \in [RunIds -> {"absent", "old"}] : \A r \in RunIds \ S : o[r] = "absent"}

(* A clip object comes into being: it is open and was never closed. *)
Open(rec, h) ==
    [rec EXCEPT !.opened = @ \cup {h}, !.closes = (h :> 0) @@ @]

(* h.close(); a close of an object that was never opened is recorded too *)
Close(closes, h) ==
    IF h \in DOMAIN closes THEN [closes EXCEPT ![h] = @ + 1] ELSE (h :> 1) @@ closes

RECURSIVE CloseAll(_, _)
(* for clip in hs: clip.close() *)
CloseAll(closes, hs) ==
    IF hs = <<>> THEN closes ELSE CloseAll(Close(closes, Head(hs)), Tail(hs))

(* The position after item i of the for loop: the next item, or the test   *)
(* of line 219 after the last one.                                         *)
AfterItem(rec) ==
    [rec EXCEPT !.i = @ + 1,
                !.pc = IF rec.i + 1 <= Len(rec.playlist) THEN "download" ELSE "assemble"]

(* The except block raises again instead of returning None. *)
Fail_reraise(rec) == [rec EXCEPT !.retval = "raised", !.pc = "finally_close"]

(* except Exception: return None; the finally block follows. *)
Fail(rec) == [rec EXCEPT !.retval = "None", !.pc = "finally_close"]

(* The same, the failing step being recorded. *)
FailAt(rec, step) == Fail([rec EXCEPT !.error = step])

(* mp.AudioFileClip(music_filepath) *)
LoadAudio(r) ==
    /\ run[r].pc = "audio"
    /\ run' = [run EXCEPT ![r] =
                 AfterItem([Open(@, Handle("audio", 0)) EXCEPT !.audio_clip = Handle("audio", 0)])]
    /\ UNCHANGED <<disk, output>>
    /\ UNCHANGED <<segVars, matchVars>>

(* mp.AudioFileClip raises *)
LoadAudioFail(r) ==
    /\ run[r].pc = "audio"
    /\ run' = [run EXCEPT ![r] = FailAt(@, "audio")]
    /\ UNCHANGED <<disk, output>>
    /\ UNCHANGED <<segVars, matchVars>>

(* requests.get, open and copyfileobj succeed; temp_files.append *)
DownloadOk(r) ==
    /\ run[r].pc = "download"
    /\ disk' = [disk EXCEPT ![temp_gif_path(run[r].i)] = r]
    /\ run' = [run EXCEPT ![r] =
                 [@ EXCEPT !.created = @ \cup {temp_gif_path(run[r].i)},
                           !.temp_files = Append(@, temp_gif_path(run[r].i)),
                           !.visited = @ \cup {run[r].i},
                           !.pc = "compose"]]
    /\ UNCHANGED output
    /\ UNCHANGED <<segVars, matchVars>>

(* The download failure reaches the outer except and ends the run. *)
DownloadFailNoFile_abort(r) ==
    /\ run[r].pc = "download"
    /\ run' = [run EXCEPT ![r] =
                 Fail([@ EXCEPT !.visited = @ \cup {run[r].i},
                                !.dl_failed = @ \cup {run[r].i}])]
    /\ UNCHANGED <<disk, output>>
    /\ UNCHANGED <<segVars, matchVars>>

(* requests.get, raise_for_status or open raises: no file; continue *)
DownloadFailNoFile(r) ==
    /\ run[r].pc = "download"
    /\ run' = [run EXCEPT ![r] =
                 AfterItem([@ EXCEPT !.visited = @ \cup {run[r].i},
                                     !.dl_failed = @ \cup {run[r].i}])]
    /\ UNCHANGED <<disk, output>>
    /\ UNCHANGED <<segVars, matchVars>>

(* open has created the file and copyfileobj raises: continue *)
DownloadFailPartial(r) ==
    /\ run[r].pc = "download"
    /\ disk' = [disk EXCEPT ![temp_gif_path(run[r].i)] = r]
    /\ run' = [run EXCEPT ![r] =
                 AfterItem([@ EXCEPT !.created = @ \cup {temp_gif_path(run[r].i)},
                                     !.visited = @ \cup {run[r].i},
                                     !.dl_failed = @ \cup {run[r].i}])]
    /\ UNCHANGED output
    /\ UNCHANGED <<segVars, matchVars>>

(* The composed clip is put in front of video_clips instead of appended. *)
ComposeOk_prepend(r) ==
    /\ run[r].pc = "compose"
    /\ disk[temp_gif_path(run[r].i)] # 0
    /\ LET i == run[r].i
           clip == [h |-> Handle("looped", i), item |-> i,
                    gif_url |-> run[r].playlist[i].exercise.gif_url,
                    duration |-> run[r].playlist[i].duration,
                    content |-> disk[temp_gif_path(i)]]
       IN run' = [run EXCEPT ![r] =
                    AfterItem([Open(Open(@, Handle("gif", i)), Handle("looped", i))
                                 EXCEPT !.temp_gif_clips = Append(@, Handle("gif", i)),
                                        !.video_clips = <<clip>> \o @])]
    /\ UNCHANGED <<disk, output>>
    /\ UNCHANGED <<segVars, matchVars>>

(* mp.VideoFileClip, resize and fx(loop) succeed; both appends *)
ComposeOk(r) ==
    /\ run[r].pc = "compose"
    /\ disk[temp_gif_path(run[r].i)] # 0
    /\ LET i == run[r].i
           clip == [h |-> Handle("looped", i), item |-> i,
                    gif_url |-> run[r].playlist[i].exercise.gif_url,
                    duration |-> run[r].playlist[i].duration,
                    content |-> disk[temp_gif_path(i)]]
       IN run' = [run EXCEPT ![r] =
                    AfterItem([Open(Open(@, Handle("gif", i)), Handle("looped", i))
                                 EXCEPT !.temp_gif_clips = Append(@, Handle("gif", i)),
                                        !.video_clips = Append(@, clip)])]
    /\ UNCHANGED <<disk, output>>
    /\ UNCHANGED <<segVars, matchVars>>

(* mp.VideoFileClip raises: the outer except *)
DecodeFail(r) ==
    /\ run[r].pc = "compose"
    /\ run' = [run EXCEPT ![r] = FailAt(@, "decode")]
    /\ UNCHANGED <<disk, output>>
    /\ UNCHANGED <<segVars, matchVars>>

(* gif is open and tracked; resize or fx(loop) raises: the outer except *)
ComposeFail(r) ==
    /\ run[r].pc = "compose"
    /\ disk[temp_gif_path(run[r].i)] # 0
    /\ run' = [run EXCEPT ![r] =
                 FailAt([Open(@, Handle("gif", run[r].i))
                         EXCEPT !.temp_gif_clips = Append(@, Handle("gif", run[r].i))], "compose")]
    /\ UNCHANGED <<disk, output>>
    /\ UNCHANGED <<segVars, matchVars>>

(* The test of line 219 is missing: an empty list goes on to be           *)
(* concatenated.                                                           *)
NoClips_proceed(r) ==
    /\ run[r].pc = "assemble"
    /\ run[r].video_clips = <<>>
    /\ run' = [run EXCEPT ![r] =
                 [Open(@, Handle("concat", 0))
                    EXCEPT !.final_video_no_audio = Handle("concat", 0), !.pc = "set_audio"]]
    /\ UNCHANGED <<disk, output>>
    /\ UNCHANGED <<segVars, matchVars>>

(* if not video_clips: return None *)
NoClips(r) ==
    /\ run[r].pc = "assemble"
    /\ run[r].video_clips = <<>>
    /\ run' = [run EXCEPT ![r] = FailAt(@, "noclips")]
    /\ UNCHANGED <<disk, output>>
    /\ UNCHANGED <<segVars, matchVars>>

(* mp.concatenate_videoclips(video_clips) *)
Concat(r) ==
    /\ run[r].pc = "assemble"
    /\ run[r].video_clips # <<>>
    /\ run' = [run EXCEPT ![r] =
                 [Open(@, Handle("concat", 0))
                    EXCEPT !.final_video_no_audio = Handle("concat", 0), !.pc = "set_audio"]]
    /\ UNCHANGED <<disk, output>>
    /\ UNCHANGED <<segVars, matchVars>>

(* mp.concatenate_videoclips raises *)
ConcatFail(r) ==
    /\ run[r].pc = "assemble"
    /\ run[r].video_clips # <<>>
    /\ run' = [run EXCEPT ![r] = FailAt(@, "concat")]
    /\ UNCHANGED <<disk, output>>
    /\ UNCHANGED <<segVars, matchVars>>

(* final_video_no_audio.set_audio(audio_clip) *)
SetAudio(r) ==
    /\ run[r].pc = "set_audio"
    /\ run' = [run EXCEPT ![r] =
                 [Open(@, Handle("final", 0))
                    EXCEPT !.final_video = Handle("final", 0), !.pc = "write"]]
    /\ UNCHANGED <<disk, output>>
    /\ UNCHANGED <<segVars, matchVars>>

(* set_audio raises *)
SetAudioFail(r) ==
    /\ run[r].pc = "set_audio"
    /\ run' = [run EXCEPT ![r] = FailAt(@, "set_audio")]
    /\ UNCHANGED <<disk, output>>
    /\ UNCHANGED <<segVars, matchVars>>

(* final_video.write_videofile(...) completes; return output_filename *)
WriteOk(r) ==
    /\ run[r].pc = "write"
    /\ output' = [output EXCEPT ![r] = "complete"]
    /\ run' = [run EXCEPT ![r] = [@ EXCEPT !.retval = "output_filename", !.pc = "finally_close"]]
    /\ UNCHANGED disk
    /\ UNCHANGED <<segVars, matchVars>>

(* write_videofile raises, before it has opened the output file or after   *)
(* it has written a part of it                                             *)
WriteFail(r) ==
    /\ run[r].pc = "write"
    /\ \E left \in {output[r], "partial"} : output' = [output EXCEPT ![r] = left]
    /\ run' = [run EXCEPT ![r] = FailAt(@, "write")]
    /\ UNCHANGED disk
    /\ UNCHANGED <<segVars, matchVars>>

(* The handles of video_clips *)
ClipHandles(clips) == [k \in 1..Len(clips) |-> clips[k].h]

(* The three names closed without the tests for None. *)
NamedHandles_unguarded(rec) ==
    <<rec.final_video, rec.final_video_no_audio, rec.audio_clip>>

(* The names that are not None, in the order the finally block closes them *)
NamedHandles(rec) ==
    (IF rec.final_video # NoHandle THEN <<rec.final_video>> ELSE <<>>)
    \o (IF rec.final_video_no_audio # NoHandle THEN <<rec.final_video_no_audio>> ELSE <<>>)
    \o (IF rec.audio_clip # NoHandle THEN <<rec.audio_clip>> ELSE <<>>)

(* The finally block without the loop that closes temp_gif_clips. *)
FinallyClose_noGifClose(r) ==
    /\ run[r].pc = "finally_close"
    /\ run' = [run EXCEPT ![r] =
                 [@ EXCEPT !.closes =
                              CloseAll(@, NamedHandles(run[r])
                                          \o ClipHandles(run[r].video_clips)),
                           !.d = 1,
                           !.pc = "finally_delete"]]
    /\ UNCHANGED <<disk, output>>
    /\ UNCHANGED <<segVars, matchVars>>

(* finally, part 1: close final_video, final_video_no_audio, audio_clip if *)
(* set, then every clip of video_clips and of temp_gif_clips               *)
FinallyClose(r) ==
    /\ run[r].pc = "finally_close"
    /\ run' = [run EXCEPT ![r] =
                 [@ EXCEPT !.closes =
                              CloseAll(@, NamedHandles(run[r])
                                          \o ClipHandles(run[r].video_clips)
                                          \o run[r].temp_gif_clips),
                           !.d = 1,
                           !.pc = "finally_delete"]]
    /\ UNCHANGED <<disk, output>>
    /\ UNCHANGED <<segVars, matchVars>>

(* os.remove without the try: a failure leaves the loop and the function. *)
FinallyDelete_propagate(r) ==
    /\ run[r].pc = "finally_delete"
    /\ run[r].d <= Len(run[r].temp_files)
    /\ LET f == run[r].temp_files[run[r].d]
       IN IF disk[f] = 0
          THEN /\ run' = [run EXCEPT ![r] = [@ EXCEPT !.d = @ + 1]]
               /\ disk' = disk
          ELSE \E ok \in BOOLEAN :
                 /\ run' = [run EXCEPT ![r] =
                              [@ EXCEPT !.d = @ + 1,
                                        !.removes = Append(@, [file |-> f, ok |-> ok]),
                                        !.retval = IF ok THEN @ ELSE "raised",
                                        !.pc = IF ok THEN @ ELSE "done"]]
                 /\ disk' = IF ok THEN [disk EXCEPT ![f] = 0] ELSE disk
    /\ UNCHANGED output
    /\ UNCHANGED <<segVars, matchVars>>

(* finally, part 2, one pass of `for f in temp_files`: os.remove(f) if the *)
(* file exists; os.remove may raise, which is caught and printed           *)
FinallyDelete(r) ==
    /\ run[r].pc = "finally_delete"
    /\ run[r].d <= Len(run[r].temp_files)
    /\ LET f == run[r].temp_files[run[r].d]
       IN IF disk[f] = 0
          THEN /\ run' = [run EXCEPT ![r] = [@ EXCEPT !.d = @ + 1]]
               /\ disk' = disk
          ELSE \E ok \in BOOLEAN :
                 /\ run' = [run EXCEPT ![r] =
                              [@ EXCEPT !.d = @ + 1,
                                        !.removes = Append(@, [file |-> f, ok |-> ok])]]
                 /\ disk' = IF ok THEN [disk EXCEPT ![f] = 0] ELSE disk
    /\ UNCHANGED output
    /\ UNCHANGED <<segVars, matchVars>>

(* The finally block is over: the function returns retval. *)
Return(r) ==
    /\ run[r].pc = "finally_delete"
    /\ run[r].d > Len(run[r].temp_files)
    /\ run' = [run EXCEPT ![r] = [@ EXCEPT !.pc = "done"]]
    /\ UNCHANGED <<disk, output>>
    /\ UNCHANGED <<segVars, matchVars>>

VideoStep(r) ==
    \/ LoadAudio(r)
    \/ LoadAudioFail(r)
    \/ DownloadOk(r)
    \/ DownloadFailNoFile(r)
    \/ DownloadFailPartial(r)
    \/ ComposeOk(r)
    \/ DecodeFail(r)
    \/ ComposeFail(r)
    \/ NoClips(r)
    \/ Concat(r)
    \/ ConcatFail(r)
    \/ SetAudio(r)
    \/ SetAudioFail(r)
    \/ WriteOk(r)
    \/ WriteFail(r)
    \/ FinallyClose(r)
    \/ FinallyDelete(r)
    \/ Return(r)

Next == \E r \in RunIds : VideoStep(r)

(* One call of create_workout_video. *)
Init ==
    /\ duration = 0
    /\ beat_times = <<>>
    /\ analysis_pc = "idle"
    /\ analysis_results = NoAnalysis
    /\ MatchIdle
    /\ VideoInit({1})

Spec == Init /\ [][Next]_vars

(* Two calls of create_workout_video in progress at once, as when two      *)
(* /generate_video requests are served by two threads of the server; both  *)
(* work in the same directory.                                             *)
ConcInit ==
    /\ duration = 0
    /\ beat_times = <<>>
    /\ analysis_pc = "idle"
    /\ analysis_results = NoAnalysis
    /\ MatchIdle
    /\ run \in [RunIds -> {[IdleRun EXCEPT !.pc = "audio", !.playlist = pl] :
                               pl \in SeqsUpTo(EntryPool, MaxConcItems)}]
    /\ disk = [f \in TempPaths |-> 0]
    /\ output = [r \in RunIds |-> "absent"]

SpecConc == ConcInit /\ [][Next]_vars

----------------------------------------------------------------------------
(* Inputs and actions of analyze_music_segments *)

(* Durations of the analysed tracks, in ticks: every short one, and 300 s. *)
DurationTicks == (1..MaxDuration) \cup {300 * TicksPerSec}

(* A regular beat train inside [0, d]: count beats from first, spacing apart. *)
Train(d, first, spacing, count) ==
    {b \in first..d : \E k \in 0..(count - 1) : b = first + k * spacing}

(* Where the first beat of a train may lie, in ticks. *)
FirstTicks(d) ==
    IF d <= MaxDuration THEN 0..d
    ELSE {(d * k) \div 10 : k \in 0..10}

(* The beat sets tried for a track of d ticks: every set of ticks for a    *)
(* short track, and every regular train for any track.                     *)
BeatSets(d) ==
    (IF d <= MaxDense THEN SUBSET (0..d) ELSE {})
    \cup {Train(d, f, s, c) : f \in FirstTicks(d), s \in 1..MaxSpacing, c \in 0..MaxBeats}

SegInit ==
    /\ \E d \in DurationTicks :
         /\ duration = UnitsPerTick * d
         /\ \E B \in BeatSets(d) :
              beat_times = SetToSeq({UnitsPerTick * b : b \in B})
    /\ analysis_pc = "call"
    /\ analysis_results = NoAnalysis
    /\ MatchIdle
    /\ VideoIdle

(* The try body runs to its return. *)
Analyze ==
    /\ analysis_pc = "call"
    /\ analysis_pc' = "done"
    /\ analysis_results' = [success |-> TRUE,
                            segments |-> MakeSegments(duration, beat_times),
                            error |-> "none"]
    /\ UNCHANGED <<duration, beat_times>>
    /\ UNCHANGED <<matchVars, videoVars>>

(* librosa raises: except Exception returns the failure dict. *)
AnalyzeError ==
    /\ analysis_pc = "call"
    /\ analysis_pc' = "done"
    /\ analysis_results' = [success |-> FALSE, segments |-> <<>>, error |-> "exception"]
    /\ UNCHANGED <<duration, beat_times>>
    /\ UNCHANGED <<matchVars, videoVars>>

SegNext == Analyze \/ AnalyzeError

SpecSeg == SegInit /\ [][SegNext]_vars

----------------------------------------------------------------------------
(* Properties of analyze_music_segments *)

AnalysisOk == analysis_pc = "done" /\ analysis_results.success

BeatSet == {beat_times[i] : i \in 1..Len(beat_times)}

(* b is a detected beat at least distance from the time t *)
IsNearestBeat(b, t) ==
    /\ b \in BeatSet
    /\ \A c \in BeatSet : Abs(b - t) <= Abs(c - t)

(* C4: for every duration > 0 and every set of beat times within           *)
(* [0, duration], the result is exactly three segments, contiguous and     *)
(* ordered, from 0 to duration, each with start < end.                     *)
C4_ThreeOrderedSegments ==
    AnalysisOk =>
        LET segs == analysis_results.segments
        IN /\ Len(segs) = 3
           /\ segs[1].start = 0
           /\ segs[3].end = duration
           /\ segs[1].end = segs[2].start
           /\ segs[2].end = segs[3].start
           /\ \A i \in 1..3 : segs[i].start < segs[i].end

(* C5: with fewer than 5 detected beats the boundaries are exactly         *)
(* duration/5 and 4*duration/5 wherever the beats lie; for a duration of   *)
(* 300 s they are 60 s and 240 s.                                          *)
C5_FewBeatsProportional ==
    (AnalysisOk /\ Len(beat_times) < 5) =>
        LET segs == analysis_results.segments
        IN /\ 5 * segs[1].end = duration
           /\ 5 * segs[2].end = 4 * duration
           /\ (duration = 300 * OneSecond =>
                 /\ segs[1].end = 60 * OneSecond
                 /\ segs[2].end = 240 * OneSecond)

(* C5 witness: a 300 s track with one to four beats, none of them on a     *)
(* proportional boundary, has been analysed.                               *)
C5_Witness ==
    /\ AnalysisOk
    /\ duration = 300 * OneSecond
    /\ Len(beat_times) \in 1..4
    /\ analysis_results.segments[1].end \notin BeatSet
    /\ analysis_results.segments[2].end \notin BeatSet

(* C6: with 5 or more detected beats, intro_end is the beat nearest to     *)
(* duration/5 unless that beat is below 1.0 s, and then it is duration/5;  *)
(* main_end is the beat nearest to 4*duration/5 unless that beat does not  *)
(* exceed intro_end, and then it is 4*duration/5.                          *)
C6_BeatSnapping ==
    (AnalysisOk /\ Len(beat_times) >= 5) =>
        LET segs == analysis_results.segments
            intro == segs[1].end
            main == segs[2].end
        IN /\ \E b \in BeatSet :
                /\ IsNearestBeat(b, duration \div 5)
                /\ IF b < OneSecond THEN 5 * intro = duration ELSE intro = b
           /\ \E b \in BeatSet :
                /\ IsNearestBeat(b, (4 * duration) \div 5)
                /\ IF b <= intro THEN 5 * main = 4 * duration ELSE main = b

(* C6 witness: both boundaries were snapped to beats away from the         *)
(* proportional targets.                                                   *)
C6_Witness ==
    /\ AnalysisOk
    /\ Len(beat_times) >= 5
    /\ analysis_results.segments[1].end \in BeatSet
    /\ analysis_results.segments[2].end \in BeatSet
    /\ 5 * analysis_results.segments[1].end # duration
    /\ 5 * analysis_results.segments[2].end # 4 * duration

----------------------------------------------------------------------------
(* Properties of get_matched_exercises *)

MatchDone == m_pc = "done"

RecognizedDifficulties == {DIFF_BEGINNER, DIFF_INTERMEDIATE, DIFF_ADVANCED}

(* The tier a difficulty string stands for: its own, or low. *)
TierOf(diff) ==
    CASE diff = DIFF_BEGINNER -> "low"
      [] diff = DIFF_INTERMEDIATE -> "medium"
      [] diff = DIFF_ADVANCED -> "high"
      [] OTHER -> "low"

CatalogMissing == database.none \/ DOMAIN database.cats = {}

CategoryOf(label) ==
    CASE label = LABEL_INTRO -> "warmup"
      [] label = LABEL_MAIN -> "core"
      [] label = LABEL_OUTRO -> "cooldown"

IsMappedLabel(label) == label \in {LABEL_INTRO, LABEL_MAIN, LABEL_OUTRO}

(* Segment i is mapped and the catalog lacks its category or its tier. *)
PathMissing(i) ==
    /\ IsMappedLabel(m_segments[i].label)
    /\ \/ database.none
       \/ CategoryOf(m_segments[i].label) \notin DOMAIN database.cats
       \/ TierOf(difficulty) \notin DOMAIN database.cats[CategoryOf(m_segments[i].label)]

(* Segment i is mapped and the catalog has a non-empty list for it. *)
Matchable(i) ==
    /\ IsMappedLabel(m_segments[i].label)
    /\ ~PathMissing(i)
    /\ database.cats[CategoryOf(m_segments[i].label)][TierOf(difficulty)] # <<>>

AvailableFor(i) == database.cats[CategoryOf(m_segments[i].label)][TierOf(difficulty)]

(* C7: with the same segments, catalog and random outcomes, a call with a  *)
(* difficulty that is not a recognized name returns what the call with the *)
(* explicit low tier (beginner) returns.                                   *)
C7_UnrecognizedIsLow ==
    (MatchDone /\ difficulty \notin RecognizedDifficulties) =>
        match_result = get_matched_exercises(m_segments, DIFF_BEGINNER, database, picks)

(* C7 witness: a call with an unrecognized difficulty returned a playlist  *)
(* with an entry chosen among several exercises.                           *)
C7_Witness ==
    /\ MatchDone
    /\ difficulty \notin RecognizedDifficulties
    /\ match_result.success
    /\ Len(match_result.playlist) >= 1
    /\ Len(picks) >= 1

(* C8: if the catalog lacks the category or the tier entry needed by any   *)
(* mapped segment, the call returns a failure and no playlist, even when   *)
(* earlier segments were matched.                                          *)
C8_MissingPathFails ==
    (MatchDone /\ \E i \in 1..Len(m_segments) : PathMissing(i)) =>
        /\ ~match_result.success
        /\ "playlist" \notin match_result.keys

(* C8 witness: the first segment was matched, a later one needs the core   *)
(* category, which the catalog lacks, and the call has returned.           *)
C8_Witness ==
    /\ MatchDone
    /\ Len(m_segments) >= 2
    /\ Matchable(1)
    /\ \E i \in 2..Len(m_segments) :
         /\ m_segments[i].label = LABEL_MAIN
         /\ ~database.none
         /\ "core" \notin DOMAIN database.cats
    /\ ~match_result.success

(* C9: a catalog structure error (catalog missing, or an expected          *)
(* category/tier path missing) is surfaced before any segment is           *)
(* processed: no exercise was selected and no entry appended when the      *)
(* failure is returned.                                                    *)
C9_ErrorBeforeAnySegment ==
    (MatchDone /\ ~match_result.success) =>
        /\ matched_playlist = <<>>
        /\ picks = <<>>

(* C9 as amended: a missing catalog is surfaced before the loop over the   *)
(* segments starts; a missing category/tier path is surfaced when the loop *)
(* reaches the first mapped segment whose path is missing, after one entry *)
(* was appended for each matchable segment before it; the failure carries  *)
(* no playlist.                                                            *)
C9_ErrorAtFirstMissingPath ==
    /\ (MatchDone /\ CatalogMissing) =>
          /\ ~match_result.success
          /\ m_i = 0
          /\ matched_playlist = <<>>
          /\ picks = <<>>
    /\ (MatchDone /\ ~match_result.success) =>
          "playlist" \notin match_result.keys
    /\ (MatchDone /\ ~match_result.success /\ ~CatalogMissing) =>
          /\ m_i \in 1..Len(m_segments)
          /\ PathMissing(m_i)
          /\ \A j \in 1..(m_i - 1) : ~PathMissing(j)
          /\ Len(matched_playlist) = Cardinality({j \in 1..(m_i - 1) : Matchable(j)})
          /\ Len(picks) = Len(matched_playlist)

(* C9 witness: the failure was returned for a missing tier entry after an  *)
(* exercise had been selected for an earlier segment.                      *)
C9_Witness ==
    /\ MatchDone
    /\ ~match_result.success
    /\ ~CatalogMissing
    /\ Len(picks) >= 1
    /\ CategoryOf(m_segments[m_i].label) \in DOMAIN database.cats

(* C10: on success the playlist is the in-order subsequence of the         *)
(* segments whose label is mapped and whose catalog list is non-empty, one *)
(* entry each, with duration = end - start and an exercise of that list;   *)
(* the other segments are skipped.                                         *)
C10_PlaylistIsMatchedSubsequence ==
    (MatchDone /\ match_result.success) =>
        LET idx == SetToSeq({i \in 1..Len(m_segments) : Matchable(i)})
            pl == match_result.playlist
        IN /\ "playlist" \in match_result.keys
           /\ Len(pl) = Len(idx)
           /\ \A k \in 1..Len(idx) :
                /\ pl[k].segment_label = m_segments[idx[k]].label
                /\ pl[k].duration = m_segments[idx[k]].end - m_segments[idx[k]].start
                /\ \E n \in 1..Len(AvailableFor(idx[k])) :
                     pl[k].exercise = AvailableFor(idx[k])[n]

(* C10 witness: a successful match that kept a segment starting after 0    *)
(* and skipped another one.                                                *)
C10_Witness ==
    /\ MatchDone
    /\ match_result.success
    /\ Len(match_result.playlist) >= 1
    /\ Len(match_result.playlist) < Len(m_segments)
    /\ \E i \in 1..Len(m_segments) : Matchable(i) /\ m_segments[i].start > 0

----------------------------------------------------------------------------
(* Properties of create_workout_video *)

RunDone(r) == run[r].pc = "done"

Registered(r) == {run[r].temp_files[k] : k \in 1..Len(run[r].temp_files)}

(* The number of os.remove calls run r made on file f. *)
RemoveCalls(r, f) ==
    Cardinality({k \in 1..Len(run[r].removes) : run[r].removes[k].file = f})

(* C1: after any run of create_workout_video (render, items skipped, no    *)
(* clip, exception at any step) no temporary downloaded file remains on    *)
(* disk and every media handle opened in the run is closed.                *)
C1_NothingLeftAfterRun ==
    \A r \in RunIds :
        RunDone(r) =>
            /\ \A f \in run[r].created : disk[f] = 0
            /\ \A h \in run[r].opened : run[r].closes[h] >= 1

(* C2: on every exit path each media handle opened in the run receives     *)
(* exactly one close and each temporary downloaded file exactly one delete *)
(* (one os.remove call, whatever its outcome).                             *)
C2_ExactlyOneCloseAndDelete ==
    \A r \in RunIds :
        RunDone(r) =>
            /\ \A h \in run[r].opened : run[r].closes[h] = 1
            /\ \A f \in run[r].created : RemoveCalls(r, f) = 1

(* C3: every temporary file the download step has created on disk, also    *)
(* one whose write failed after the file was opened, is registered in      *)
(* temp_files.                                                             *)
C3_CreatedFilesRegistered ==
    \A r \in RunIds : run[r].created \subseteq Registered(r)

(* The playlist items of the clips of video_clips, in their order. *)
ClipItems(r) == [k \in 1..Len(run[r].video_clips) |-> run[r].video_clips[k].item]

AllItems(r) == 1..Len(run[r].playlist)

(* A step from concatenation to the render write raised. *)
RenderFailed(r) == run[r].error \in {"concat", "set_audio", "write"}

(* VideoFileClip, resize or fx(loop) raised for an item. *)
DecodeFailed(r) == run[r].error \in {"decode", "compose"}

(* C11: a download failure for one playlist entry skips only that entry:   *)
(* the loop goes on behind it and leaves no clip for it, every later entry *)
(* is processed and an output is rendered when another entry yields a clip *)
(* (no other step of the run having raised).                               *)
C11_DownloadFailureSkipsEntry ==
    \A r \in RunIds :
        run[r].dl_failed # {} =>
            /\ \A k \in run[r].dl_failed :
                 /\ run[r].i > k
                 /\ \A n \in 1..Len(run[r].video_clips) : run[r].video_clips[n].item # k
            /\ (RunDone(r) /\ run[r].error \in {"none", "noclips"}) =>
                 /\ run[r].visited = AllItems(r)
                 /\ (run[r].error = "noclips") <=> (run[r].video_clips = <<>>)
                 /\ run[r].video_clips # <<>> =>
                      /\ run[r].retval = "output_filename"
                      /\ output[r] = "complete"

(* C11 witness: the download of the first entry failed, a later entry      *)
(* yielded a clip and the run has rendered.                                *)
C11_Witness ==
    /\ RunDone(1)
    /\ 1 \in run[1].dl_failed
    /\ run[1].video_clips # <<>>
    /\ run[1].retval = "output_filename"

(* C12: a decode, resize or loop failure for one downloaded asset drops    *)
(* only that entry: the other entries are still processed and the run      *)
(* renders an output from the clips that remain.                           *)
C12_DecodeFailureDropsEntry ==
    \A r \in RunIds :
        (RunDone(r) /\ DecodeFailed(r)) =>
            /\ run[r].visited = AllItems(r)
            /\ run[r].video_clips # <<>> =>
                 /\ run[r].retval = "output_filename"
                 /\ output[r] = "complete"

(* C13: when concatenation, muxing or encoding fails, the run reports      *)
(* failure and no output file written by it, partial or complete, is left  *)
(* at the output location.                                                 *)
C13_NoOutputAfterRenderFailure ==
    \A r \in RunIds :
        (RunDone(r) /\ RenderFailed(r)) =>
            /\ run[r].retval = "None"
            /\ output[r] \in {"absent", "old"}

(* C14: when no playlist entry yields a composed clip the run stops before *)
(* concatenation and render, reports failure and creates no output file.   *)
C14_NoClipsNoRender ==
    \A r \in RunIds :
        (run[r].pc \in {"set_audio", "write", "finally_close", "finally_delete", "done"}
           /\ run[r].video_clips = <<>>) =>
            /\ run[r].pc \in {"finally_close", "finally_delete", "done"}
            /\ run[r].retval = "None"
            /\ Handle("concat", 0) \notin run[r].opened
            /\ Handle("final", 0) \notin run[r].opened
            /\ output[r] \in {"absent", "old"}

(* C14 witness: every entry of a playlist of several failed to download    *)
(* and the run has returned through line 221.                              *)
C14_Witness ==
    /\ RunDone(1)
    /\ Len(run[1].playlist) >= 2
    /\ run[1].dl_failed = AllItems(1)
    /\ run[1].error = "noclips"

(* C15: the clips handed to concatenation are those of the playlist        *)
(* entries that were fetched and decoded, in playlist order, each made     *)
(* from the file this run downloaded for its entry and with its entry's    *)
(* duration.                                                               *)
C15_ClipsAreOrderedSubsequence ==
    \A r \in RunIds :
        Handle("concat", 0) \in run[r].opened =>
            /\ ClipItems(r) = SetToSeq(AllItems(r) \ run[r].dl_failed)
            /\ \A k \in 1..Len(run[r].video_clips) :
                 LET c == run[r].video_clips[k]
                 IN /\ c.duration = run[r].playlist[c.item].duration
                    /\ c.gif_url = run[r].playlist[c.item].exercise.gif_url
                    /\ c.content = r

(* C15 witness: three entries, the middle one not fetched, two clips       *)
(* concatenated.                                                           *)
C15_Witness ==
    /\ Handle("concat", 0) \in run[1].opened
    /\ Len(run[1].playlist) = 3
    /\ run[1].dl_failed = {2}
    /\ Len(run[1].video_clips) = 2
    /\ run[1].video_clips[1].duration # run[1].video_clips[2].duration

(* C16: with two runs in progress a temporary file belongs to the run that *)
(* created it: no run overwrites or deletes a file the other run wrote,    *)
(* and no run makes a clip from a file the other run wrote.                *)
C16_TempFilesExclusive ==
    [][\A r \in RunIds :
          /\ \A f \in TempPaths :
               (disk[f] \notin {0, r} /\ run'[r] # run[r]) => disk'[f] = disk[f]
          /\ \A k \in 1..Len(run'[r].video_clips) :
               run'[r].video_clips[k].content = r]_vars

(* The positions of the try block and of its except. *)
MainWork == {"audio", "download", "compose", "assemble", "set_audio", "write"}

AllClosed(r) == \A h \in run[r].opened : run[r].closes[h] >= 1

(* C17: the release step runs on every exit path, after the main work has  *)
(* stopped and before the function returns, and it closes no handle that   *)
(* was never opened.                                                       *)
C17_ReleaseOnEveryExit ==
    \A r \in RunIds :
        /\ run[r].pc \in MainWork \cup {"finally_close"} =>
             /\ \A h \in DOMAIN run[r].closes : run[r].closes[h] = 0
             /\ run[r].removes = <<>>
        /\ run[r].pc \in {"finally_close", "finally_delete", "done"} =>
             run[r].retval # "unset"
        /\ RunDone(r) =>
             /\ AllClosed(r)
             /\ run[r].d = Len(run[r].temp_files) + 1
        /\ DOMAIN run[r].closes \subseteq run[r].opened

(* C17 witness: a run that stopped at concatenation has returned: the      *)
(* final clip was never made, the audio and the item clips were.           *)
C17_Witness ==
    /\ RunDone(1)
    /\ run[1].error = "concat"
    /\ run[1].final_video = NoHandle
    /\ run[1].audio_clip # NoHandle

(* C18: a failure to delete one temporary file is not propagated: the      *)
(* deletion of every other registered file is still attempted and the      *)
(* function returns what it would have returned.                           *)
C18_DeleteFailureTolerated ==
    \A r \in RunIds :
        (RunDone(r) /\ \E k \in 1..Len(run[r].removes) : ~run[r].removes[k].ok) =>
            /\ \A f \in Registered(r) : RemoveCalls(r, f) = 1
            /\ run[r].retval = IF run[r].error = "none" THEN "output_filename" ELSE "None"

(* C18 witness: the first delete failed, the second succeeded, and the run *)
(* returned the output filename.                                           *)
C18_Witness ==
    /\ RunDone(1)
    /\ Len(run[1].removes) >= 2
    /\ ~run[1].removes[1].ok
    /\ run[1].removes[2].ok
    /\ run[1].retval = "output_filename"

(* C19: in the cleanup every close of a media handle precedes the first    *)
(* attempt to delete a temporary file: no file is deleted while a handle   *)
(* of this run is open.                                                    *)
C19_CloseBeforeDelete ==
    \A r \in RunIds : run[r].removes # <<>> => AllClosed(r)

(* C19 witness: the file of the first item is deleted, the clip made from  *)
(* it having been opened and closed.                                       *)
C19_Witness ==
    /\ run[1].removes # <<>>
    /\ run[1].removes[1] = [file |-> temp_gif_path(1), ok |-> TRUE]
    /\ Handle("gif", 1) \in run[1].opened
    /\ run[1].pc = "finally_delete"

(* C20: the function returns the output filename only when the render      *)
(* write completed in this run, with at least one clip; on every other     *)
(* path it returns None and raises nothing.                                *)
C20_ReturnsNameOnlyAfterWrite ==
    \A r \in RunIds :
        RunDone(r) =>
            /\ run[r].retval \in {"output_filename", "None"}
            /\ (run[r].retval = "output_filename") <=>
                 (output[r] = "complete" /\ Handle("final", 0) \in run[r].opened)
            /\ run[r].retval = "output_filename" =>
                 (run[r].video_clips # <<>> /\ run[r].error = "none")

(* C20 witness: the render write raised with clips at hand and the run     *)
(* returned None.                                                          *)
C20_Witness ==
    /\ RunDone(1)
    /\ run[1].error = "write"
    /\ run[1].video_clips # <<>>
    /\ run[1].retval = "None"

====
